---- MODULE Spec2Model ----
(***************************************************************************)
(* Model of the dinosaur-transport chatbot glue code:                      *)
(*   - the temperature tools (dino_temp_safety_check,                      *)
(*     celsius_to_fahrenheit_conversion): SpecTools                        *)
(*   - the chat history of the Streamlit session (add_to_history):         *)
(*     SpecHistory                                                         *)
(*   - the five-stage workflow (dino_temp_safety_check_workflow and its    *)
(*     copy dino_temp_safety_check_workflow_tool), the agent executor      *)
(*     loop each stage runs, and the SMS notification: SpecFlow            *)
(*   - the functions of dynamo_db.py over a key-value store and the CSV    *)
(*     files: SpecDynamo                                                   *)
(*   - the sessions running initialize_data_sources, one after the other   *)
(*     (SpecInitSeq) or at the same time (SpecInitConc)                    *)
(*   - workflow runs started from inside a stage's loop by the tool        *)
(*     dino_temp_safety_check_workflow_tool: SpecNest                      *)
(*   - the submit of the chat form (main, lines 163-189): SpecChat         *)
(* Text is modelled as a sequence of one-character strings (tools) or of   *)
(* tokens (workflow).  A decimal number is a record [num, scale] standing  *)
(* for num / 10^scale; the inputs are short enough that a Python float     *)
(* holds every such number distinctly.                                     *)
(***************************************************************************)
EXTENDS Integers, Sequences, FiniteSets, TLC

VARIABLES
    \* ---- temperature tools
    tpc,          \* "idle" | "done"
    tool,         \* "none" | "dino" | "celsius": the tool that was invoked
    tinput,       \* the tool's string argument
    fields,       \* dino: temperature_list.split(",")
    parsed,       \* dino: the floats computed so far (lines 38-40), in order
    tresult,      \* the returned value, or None
    traised       \* the exception raised, or None

VARIABLES
    \* ---- chat session (st.session_state)
    message_history,  \* None while the key is absent, else the list of pairs
    added             \* history variable: the pairs add_to_history was given

VARIABLES
    \* ---- one run of the five-stage workflow
    fpc,            \* "off" | "start" | "agent" | "sms" | "log" | "done" | "failed"
    variant,        \* "workflow" (dino_safety_flow_part4.py) | "tool" (react_agent.py)
    date,           \* the date argument
    extra_context,  \* the extra_context argument, then the local of that name
    stage,          \* the stage whose agent_executor.invoke is running (0: none yet)
    iterations,     \* the running executor's iteration counter
    observation,    \* the running executor's latest observation, or None
    agent_inputs,   \* the "input" of every agent_executor.invoke made, in order
    outputs,        \* the ['output'] of every invoke that returned, in order
    capped,         \* history variable: the stages whose executor hit its cap
    stage_errors,   \* history variable: the stages whose invoke raised
    tools,          \* the names of the tools handed to the executor, <<>> before
    tool_request,   \* the tool name the backend gave in the latest iteration, or None
    sms_calls,      \* the (phone_number, message) of every aws_send_sms call
    sms_response,   \* <<the response aws_send_sms returned>>, or <<>> before it
    printed,        \* the lines the workflow printed
    returned,       \* <<the value the run returned>>, or <<>> before it returns
    raised          \* the exception that ended the run, or None

VARIABLES
    \* ---- the key-value store, the CSV files, one caller of dynamo_db.py
    table_exists,   \* the names of the tables the store holds
    items,          \* table name -> the set of items the table holds
    csv_files,      \* path -> <<the rows of the file>>, or <<>> when no file is there
    dop,            \* the function of dynamo_db.py called last, or None
    dargs,          \* its arguments [table_name, csv_file_path, date], None where it has none
    reported,       \* what describe_table answered to the last check, or None
    dresult,        \* <<the value it returned>>, or <<>>
    draised,        \* the exception it raised, or None
    table_created,  \* create_dino_dynamo_table: <<the name given to create_table>>, or <<>>
    table_written,  \* create_dino_dynamo_table: <<the name given to the bulk load>>, or <<>>
    path_read       \* create_dino_dynamo_table: <<the path the bulk load opened>>, or <<>>

VARIABLES
    \* ---- the sessions running initialize_data_sources
    mode,             \* "off" | "sequential" | "concurrent"
    ipc,              \* session -> where it is in initialize_data_sources
    ierror,           \* session -> the exception that ended its latest run, or None
    checked,          \* session -> <<what check_table_exists returned>>, or <<>>
    snap,             \* session -> <<the data sources when the run began>> if both
                      \* were there, else <<>>
    runs,             \* the runs begun
    chroma_exists,    \* something is at the vector store's path
    builds,           \* history variable: vector stores built
    deletes,          \* history variable: vector stores removed
    creates,          \* history variable: tables created
    create_attempts,  \* history variable: create_table calls made
    loads             \* history variable: bulk loads completed

VARIABLES
    \* ---- the workflow runs in progress, one inside the other
    npc,     \* "off" | "start" | "run" | "done"
    frames   \* outermost first: [stage, iterations] of each run's current loop

VARIABLES
    \* ---- the chat form of one session
    rag_application,  \* cfg.rag.rag_application: "off" | "true" | "false"
    submitted,        \* history variable: every submit, [user_input, called, response, raised]
    notice            \* the line the latest submit wrote, or None

toolVars == <<tpc, tool, tinput, fields, parsed, tresult, traised>>
histVars == <<message_history, added>>
flowVars == <<fpc, variant, date, extra_context, stage, iterations, observation, agent_inputs,
              outputs, capped, stage_errors, tools, tool_request, sms_calls,
              sms_response, printed, returned, raised>>

\* the variables of the other specifications
dynVars == <<table_exists, items, csv_files, dop, dargs, reported, dresult, draised,
             table_created, table_written, path_read>>
callVars == <<dop, dargs, reported, dresult, draised, table_created, table_written, path_read>>
initVars == <<mode, ipc, ierror, checked, snap, runs, chroma_exists, builds, deletes, creates,
              create_attempts, loads>>
nestVars == <<npc, frames>>
chatVars == <<rag_application, submitted, notice>>
extVars == <<dynVars, initVars, nestVars, chatVars>>

vars == <<toolVars, histVars, flowVars, extVars>>

None == "None"

\* ------------------------------------------------------------------ bounds

MaxInput == 6
MaxAdds == 5
MaxRows == 2
MaxRuns == 3
MaxDepth == 3
MaxSubmits == 4

\* The characters an input string is drawn from: two digits, the field
\* separator, the sign, the decimal point and one decoration (a unit letter).
Alphabet == {"1", "2", ",", "-", ".", "F"}

Strings(n) == UNION {[1..k -> Alphabet] : k \in 0..n}

\* ------------------------------------------------------------- arithmetic

RECURSIVE Pow10(_)
Pow10(k) == IF k = 0 THEN 1 ELSE 10 * Pow10(k - 1)

\* a < b and a > b for decimals, as Python compares two floats
NumLess(a, b) == a.num * Pow10(b.scale) < b.num * Pow10(a.scale)
NumGreater(a, b) == NumLess(b, a)

\* --------------------------------------------------------------- re, float

Digits == {"0", "1", "2", "3", "4", "5", "6", "7", "8", "9"}

DigitVal(c) ==
    CASE c = "0" -> 0 [] c = "1" -> 1 [] c = "2" -> 2 [] c = "3" -> 3
      [] c = "4" -> 4 [] c = "5" -> 5 [] c = "6" -> 6 [] c = "7" -> 7
      [] c = "8" -> 8 [] c = "9" -> 9

\* A plausible slip in the character class: '-' left out of [^0-9.-].
RECURSIVE ReSubNoSign(_)
ReSubNoSign(s) ==
    IF s = <<>> THEN <<>>
    ELSE IF Head(s) \in Digits \cup {"."}
         THEN <<Head(s)>> \o ReSubNoSign(Tail(s))
         ELSE ReSubNoSign(Tail(s))

\* re.sub(r'[^0-9.-]', '', s): every character that is not a digit, '.' or
\* '-' is replaced by the empty string, scanning left to right.
RECURSIVE ReSub(_)
ReSub(s) ==
    IF s = <<>> THEN <<>>
    ELSE IF Head(s) \in Digits \cup {".", "-"}
         THEN <<Head(s)>> \o ReSub(Tail(s))
         ELSE ReSub(Tail(s))

\* index of the first character at or after i that is not a digit
RECURSIVE ScanDigits(_, _)
ScanDigits(s, i) ==
    IF i <= Len(s) /\ s[i] \in Digits THEN ScanDigits(s, i + 1) ELSE i

\* value of the digit string s[i..j-1], read left to right
RECURSIVE DigitsValue(_, _, _, _)
DigitsValue(s, i, j, acc) ==
    IF i >= j THEN acc ELSE DigitsValue(s, i + 1, j, 10 * acc + DigitVal(s[i]))

\* float(s) for a string without whitespace, exponent or underscore: an
\* optional sign, digits, an optional point, digits; at least one digit and
\* nothing left over, otherwise ValueError.  [ok, num, scale].
PyFloat(s) ==
    LET signed == Len(s) > 0 /\ s[1] \in {"-", "+"}
        neg == Len(s) > 0 /\ s[1] = "-"
        b == IF signed THEN Tail(s) ELSE s
        i1 == ScanDigits(b, 1)
        dot == i1 <= Len(b) /\ b[i1] = "."
        i2 == IF dot THEN ScanDigits(b, i1 + 1) ELSE i1
        nint == i1 - 1
        nfrac == IF dot THEN i2 - i1 - 1 ELSE 0
        mant == DigitsValue(b, i1 + 1, i2, DigitsValue(b, 1, i1, 0))
    IN IF nint + nfrac >= 1 /\ i2 = Len(b) + 1
       THEN [ok |-> TRUE, num |-> IF neg THEN 0 - mant ELSE mant, scale |-> nfrac]
       ELSE [ok |-> FALSE, num |-> 0, scale |-> 0]

Num(f) == [num |-> f.num, scale |-> f.scale]

\* ------------------------------------------------------------------ split

\* the part of s before its first "," and the part after it
RECURSIVE UpToComma(_)
UpToComma(s) ==
    IF s = <<>> \/ Head(s) = "," THEN <<>> ELSE <<Head(s)>> \o UpToComma(Tail(s))

\* A plausible slip: split(",", 2), the rest of the string left in the third
\* field.
SplitTwice(s) ==
    LET f1 == UpToComma(s)
        r1 == SubSeq(s, Len(f1) + 2, Len(s))
        f2 == UpToComma(r1)
    IN IF Len(f1) = Len(s) THEN <<f1>>
       ELSE IF Len(f2) = Len(r1) THEN <<f1, f2>>
       ELSE <<f1, f2, SubSeq(r1, Len(f2) + 2, Len(r1))>>

RECURSIVE Split(_)
\* str.split(","): the fields between the commas; a string without a comma
\* (the empty string too) is one field.
Split(s) ==
    LET f == UpToComma(s)
    IN IF Len(f) = Len(s) THEN <<f>>
       ELSE <<f>> \o Split(SubSeq(s, Len(f) + 2, Len(s)))

\* ------------------------------------------------ dino_temp_safety_check

TooCold == "It is not safe for the dinosaurs at this temperature because it is too cold."
TooHot == "It is not safe for the dinosaurs at this temperature because it is too hot."
Safe == "It is safe for the dinosaurs at this temperature."

\* A plausible slip in the comparisons: <= and >= for < and >.
VerdictExclusive(cur, low, high) ==
    IF ~NumGreater(cur, low) THEN TooCold
    ELSE IF ~NumLess(cur, high) THEN TooHot
    ELSE Safe

\* A plausible slip: the two tests in the other order.
VerdictHotFirst(cur, low, high) ==
    IF NumGreater(cur, high) THEN TooHot
    ELSE IF NumLess(cur, low) THEN TooCold
    ELSE Safe

\* lines 42-47
Verdict(cur, low, high) ==
    IF NumLess(cur, low) THEN TooCold
    ELSE IF NumGreater(cur, high) THEN TooHot
    ELSE Safe

\* lines 38-40: the floats of the fields, in order, up to and without the
\* first field float() rejects
RECURSIVE ParseFields(_)
ParseFields(fs) ==
    IF fs = <<>> THEN <<>>
    ELSE LET f == PyFloat(ReSub(Head(fs)))
         IN IF f.ok THEN <<Num(f)>> \o ParseFields(Tail(fs)) ELSE <<>>

DinoTempSafetyCheck ==
    /\ tpc = "idle"
    /\ tpc' = "done"
    /\ tool' = "dino"
    /\ fields' = Split(tinput)
    /\ IF Len(fields') # 3
       THEN \* line 36: the unpacking into three names fails
            /\ parsed' = <<>>
            /\ tresult' = None
            /\ traised' = "ValueError: unpack"
       ELSE /\ parsed' = ParseFields(fields')
            /\ IF Len(parsed') < 3
               THEN /\ tresult' = None
                    /\ traised' = "ValueError: float"
               ELSE /\ tresult' = Verdict(parsed'[1], parsed'[2], parsed'[3])
                    /\ traised' = None
    /\ UNCHANGED <<tinput, histVars, flowVars, extVars>>

\* --------------------------------------- celsius_to_fahrenheit_conversion

\* (c * 9/5) + 32 for c = num / 10^scale, exactly: one more decimal place
Fahrenheit(c) ==
    [num |-> 18 * c.num + 320 * Pow10(c.scale), scale |-> c.scale + 1]

CelsiusToFahrenheit ==
    /\ tpc = "idle"
    /\ tpc' = "done"
    /\ tool' = "celsius"
    /\ parsed' = ParseFields(<<tinput>>)
    /\ IF Len(parsed') = 1
       THEN /\ tresult' = Fahrenheit(parsed'[1])
            /\ traised' = None
       ELSE /\ tresult' = None
            /\ traised' = "ValueError: float"
    /\ UNCHANGED <<tinput, fields, histVars, flowVars, extVars>>

ToolsInit ==
    /\ tpc = "idle"
    /\ tool = "none"
    /\ tinput \in Strings(MaxInput)
    /\ fields = <<>>
    /\ parsed = <<>>
    /\ tresult = None
    /\ traised = None

ToolsIdle ==
    /\ tpc = "off"
    /\ tool = "none"
    /\ tinput = <<>>
    /\ fields = <<>>
    /\ parsed = <<>>
    /\ tresult = None
    /\ traised = None

ToolsNext == DinoTempSafetyCheck \/ CelsiusToFahrenheit

\* ---------------------------------------------------------- add_to_history

HistoryCap == 3

UserMessages == {"u1", "u2"}
BotResponses == {"b1", "b2"}

\* A plausible slip in the slice: [:3] for [-3:].
KeepFirstThree(h) ==
    IF Len(h) > HistoryCap THEN SubSeq(h, 1, HistoryCap) ELSE h

\* lines 37-38: message_history[-3:] when the list is longer than three
KeepLastThree(h) ==
    IF Len(h) > HistoryCap THEN SubSeq(h, Len(h) - HistoryCap + 1, Len(h)) ELSE h

AddToHistory(user_message, bot_response) ==
    /\ Len(added) < MaxAdds
    /\ LET h0 == IF message_history = None THEN <<>> ELSE message_history
           h1 == Append(h0, <<user_message, bot_response>>)
       IN message_history' = KeepLastThree(h1)
    /\ added' = Append(added, <<user_message, bot_response>>)
    /\ UNCHANGED <<toolVars, flowVars, extVars>>

HistInit ==
    /\ message_history = None
    /\ added = <<>>

HistNext ==
    \E u \in UserMessages, b \in BotResponses : AddToHistory(u, b)

\* ------------------------------------------------- the workflow's prompts

Dates == {<<"3/19/2024">>, <<"3/20/2024">>}

\* what the reasoning backend may give as a stage's final answer
Answers == {<<"safe">>, <<"not", " ", "safe">>}

DefaultExtraContext == <<"Only use a tool if needed, otherwise respond with Final Answer">>
CustomExtraContext == <<"Answer briefly">>

\* f"{input_msg}. {extra_context}"
WithExtra(input_msg, extra) == input_msg \o <<". ">> \o extra

\* dino_safety_flow_part4.py lines 42-43
InputMsg1(d) ==
    <<"What is the safe temperature range of the dinosaur being transported on date ">>
    \o d \o <<"? In your response, also give the city and name of the dinosaur as well.">>

\* lines 48-51
InputMsg2(t) ==
    <<"Given the following context: ">> \o t
    \o <<" what is the current temperature in fahrenheight of the referenced city? Give the answer like this example: 'The current temperature in CITY is TEMPERATURE">>

\* lines 55-56
InputMsg3(t, c) ==
    (t \o <<" ">> \o c)
    \o <<" Is it safe to transport the dinosaur at that temperature? You do not need to do any temperature conversion.">>

\* A plausible slip: the stage-2 answer left out of the stage-4 context.
InputMsg4NoCurrentTemp(t, c, s) ==
    <<"Given this information: ">> \o (t \o <<" ">> \o s)
    \o <<" If it is not safe to transport the dinosaur, check what specific actions we can take to to keep the relevant dinosaur safe based on the existing documentation. (Make sure to reference the correct document since you are given the dinosaur name)">>

\* lines 60-63
InputMsg4(t, c, s) ==
    <<"Given this information: ">> \o (t \o <<" ">> \o c \o <<" ">> \o s)
    \o <<" If it is not safe to transport the dinosaur, check what specific actions we can take to to keep the relevant dinosaur safe based on the existing documentation. (Make sure to reference the correct document since you are given the dinosaur name)">>

\* A plausible slip: the mitigation answer used only when stage 3 did not
\* answer "safe".
MessageInfoActionsIfUnsafe(t, c, s, a) ==
    IF s = <<"safe">> THEN t \o <<" ">> \o c \o <<" ">> \o s
    ELSE t \o <<" ">> \o c \o <<" ">> \o s \o <<" ">> \o a

\* line 67
MessageInfo(t, c, s, a) ==
    t \o <<" ">> \o c \o <<" ">> \o s \o <<" ">> \o a

\* lines 68-76
InputMsg5(t, c, s, a) ==
    <<"Given this information: ">> \o MessageInfo(t, c, s, a)
    \o <<" Craft a status email to inform the manager about the dinosaur. It should look like: Subject: ... Dear Manager, ... Best Your Name. Your Final Answer should be the email.">>

\* the "input" dino_temp_safety_check_workflow gives the agent at stage k,
\* from the outputs out of the stages before it (lines 44, 52, 57, 64, 77)
WorkflowInput(k, d, out, extra) ==
    CASE k = 1 -> WithExtra(InputMsg1(d), extra)
      [] k = 2 -> WithExtra(InputMsg2(out[1]), extra)
      [] k = 3 -> WithExtra(InputMsg3(out[1], out[2]), extra)
      [] k = 4 -> WithExtra(InputMsg4(out[1], out[2], out[3]), extra)
      [] k = 5 -> WithExtra(InputMsg5(out[1], out[2], out[3], out[4]), extra)

\* react_agent.py lines 174-175, 180-183, 187-188, 192-195, 199-208
ToolInputMsg1(d) ==
    <<"What is the safe temperature range of the dinosaur being transported on date ">>
    \o d \o <<"? In your response, also give the city and name of the dinosaur as well.">>

\* A plausible slip: one copy edited, the other not.
ToolInputMsg2Celsius(t) ==
    <<"Given the following context: ">> \o t
    \o <<" what is the current temperature in celsius of the referenced city? Give the answer like this example: 'The current temperature in CITY is TEMPERATURE">>

ToolInputMsg2(t) ==
    <<"Given the following context: ">> \o t
    \o <<" what is the current temperature in fahrenheight of the referenced city? Give the answer like this example: 'The current temperature in CITY is TEMPERATURE">>

ToolInputMsg3(t, c) ==
    (t \o <<" ">> \o c)
    \o <<" Is it safe to transport the dinosaur at that temperature? You do not need to do any temperature conversion.">>

ToolInputMsg4(t, c, s) ==
    <<"Given this information: ">> \o (t \o <<" ">> \o c \o <<" ">> \o s)
    \o <<" If it is not safe to transport the dinosaur, check what specific actions we can take to to keep the relevant dinosaur safe based on the existing documentation. (Make sure to reference the correct document since you are given the dinosaur name)">>

ToolMessageInfo(t, c, s, a) ==
    t \o <<" ">> \o c \o <<" ">> \o s \o <<" ">> \o a

ToolInputMsg5(t, c, s, a) ==
    <<"Given this information: ">> \o ToolMessageInfo(t, c, s, a)
    \o <<" Craft a status email to inform the manager about the dinosaur. It should look like: Subject: ... Dear Manager, ... Best Your Name. Your Final Answer should be the email.">>

\* the "input" dino_temp_safety_check_workflow_tool gives the agent at stage k
\* (lines 176, 184, 189, 196, 209)
ToolInput(k, d, out, extra) ==
    CASE k = 1 -> WithExtra(ToolInputMsg1(d), extra)
      [] k = 2 -> WithExtra(ToolInputMsg2(out[1]), extra)
      [] k = 3 -> WithExtra(ToolInputMsg3(out[1], out[2]), extra)
      [] k = 4 -> WithExtra(ToolInputMsg4(out[1], out[2], out[3]), extra)
      [] k = 5 -> WithExtra(ToolInputMsg5(out[1], out[2], out[3], out[4]), extra)

StageInput(k, out) ==
    IF variant = "workflow" THEN WorkflowInput(k, date, out, extra_context)
    ELSE ToolInput(k, date, out, extra_context)

\* ----------------------------------------------------- the agent executor

\* AgentExecutor(agent=agent, tools=tools, verbose=True): max_iterations and
\* early_stopping_method are not passed, so the executor runs with the
\* library's defaults, 15 iterations and "force".
MaxIterations == 15

\* what a "force"-stopped executor returns as its output
StoppedResponse == <<"Agent stopped due to iteration limit or time limit.">>

\* ------------------------------------------------------- aws_send_sms, log

PhoneNumber == "+16319353837"

\* what sns_client.publish may return: 'MessageId' absent (None), empty or
\* set, and the HTTP status of the response metadata
SmsResponses ==
    [MessageId : {None, "", "msg-1"}, HTTPStatusCode : {200, 400, 500}]

\* sms_response.get('MessageId') as a condition
Truthy(x) == x # None /\ x # ""

\* A plausible slip: "or" for "and".
LogsSuccessEither(r) == Truthy(r.MessageId) \/ r.HTTPStatusCode = 200

\* line 82
LogsSuccess(r) == Truthy(r.MessageId) /\ r.HTTPStatusCode = 200

\* A plausible slip: a failed delivery sent again.
AfterLogRetry(r) == IF LogsSuccess(r) THEN "done" ELSE "sms"

\* lines 82-87: after the print the function returns, whatever was printed
AfterLog(r) == "done"

\* A plausible slip: the failure line returned after a failed delivery.
ReturnOnlyIfSent(email, r) ==
    IF LogsSuccess(r) THEN email ELSE <<"Failed to send message.">>

\* line 87: return email
WorkflowReturn(email, r) == email

\* ------------------------------------------------------------ the tools

\* load_existing_tools: load_tools(["openweathermap-api"])
LoadExistingTools == <<"open_weather_map">>

\* A plausible slip: one tool added twice, another left out.
GetAllToolsRepeated ==
    LoadExistingTools \o <<"dinosaur_temperature_transport_info",
                           "query_dynamodb_dino_tbl_by_date",
                           "celsius_to_fahrenheit_conversion",
                           "query_dino_name_tool",
                           "dino_temp_safety_check",
                           "dino_temp_safety_check">>

\* get_all_tools: the loaded tools and the six of lines 99-104, by name
GetAllTools ==
    LoadExistingTools \o <<"dinosaur_temperature_transport_info",
                           "query_dynamodb_dino_tbl_by_date",
                           "celsius_to_fahrenheit_conversion",
                           "query_dino_name_tool",
                           "dino_temp_safety_check",
                           "dino_temp_safety_check_workflow_tool">>

\* the executor's name_to_tool_map: the names it can resolve
ToolNames(ts) == {ts[i] : i \in DOMAIN ts}

\* the tool names the reasoning backend may give
RequestedNames == {"open_weather_map", "dinosaur_temperature_transport_info", "no_such_tool"}

\* the inputs the backend may give dino_temp_safety_check: a well-formed
\* list, a list with a field that holds no number, a list of two fields
DinoRequests == {<<"1", ",", "1", ",", "2">>, <<"F", ",", "1", ",", "2">>, <<"1", ",", "2">>}

\* dino_temp_safety_check(s): what it returns or raises
DinoOutcome(s) ==
    LET fs == Split(s)
        ps == IF Len(fs) = 3 THEN ParseFields(fs) ELSE <<>>
    IN IF Len(fs) # 3 THEN [result |-> None, raised |-> "ValueError: unpack"]
       ELSE IF Len(ps) < 3 THEN [result |-> None, raised |-> "ValueError: float"]
       ELSE [result |-> Verdict(ps[1], ps[2], ps[3]), raised |-> None]

\* ------------------------------------------------------------- the stages

\* lines 28-44 (tool: 162-176): the tools and the executor are built, the
\* default extra_context is set and stage 1's invoke begins
StartWorkflow ==
    /\ fpc = "start"
    /\ extra_context' = IF variant = "tool" \/ extra_context = None
                        THEN DefaultExtraContext ELSE extra_context
    /\ stage' = 1
    /\ iterations' = 0
    /\ observation' = None
    /\ agent_inputs' = <<IF variant = "workflow"
                         THEN WorkflowInput(1, date, <<>>, extra_context')
                         ELSE ToolInput(1, date, <<>>, extra_context')>>
    /\ fpc' = "agent"
    /\ tools' = GetAllTools
    /\ tool_request' = None
    /\ UNCHANGED <<toolVars, histVars, extVars, variant, date, outputs, capped, stage_errors, sms_calls, sms_response,
                   printed, returned, raised>>

\* A plausible slip: a stage's exception caught and the chain continued.
StageRaisesSwallowed(exc) ==
    /\ outputs' = Append(outputs, <<>>)
    /\ IF stage < 5
       THEN /\ fpc' = "agent"
            /\ stage' = stage + 1
            /\ agent_inputs' = Append(agent_inputs, StageInput(stage + 1, outputs'))
       ELSE /\ fpc' = "sms"
            /\ UNCHANGED <<stage, agent_inputs>>
    /\ iterations' = 0
    /\ observation' = None
    /\ UNCHANGED <<raised, returned>>

\* invoke raises inside the workflow: no try/except around any stage, the
\* exception leaves the function
StageRaises(exc) ==
    /\ fpc' = "failed"
    /\ raised' = exc
    /\ UNCHANGED <<stage, iterations, observation, agent_inputs, outputs, returned>>

\* invoke returns out: the workflow reads ['output'] and goes on to the next
\* stage's invoke, or after stage 5 to the send (workflow) or the return (tool)
StageReturns(out) ==
    /\ outputs' = Append(outputs, out)
    /\ IF stage < 5
       THEN /\ stage' = stage + 1
            /\ iterations' = 0
            /\ observation' = None
            /\ agent_inputs' = Append(agent_inputs, StageInput(stage + 1, outputs'))
            /\ fpc' = "agent"
            /\ returned' = returned
       ELSE /\ fpc' = IF variant = "workflow" THEN "sms" ELSE "done"
            /\ returned' = IF variant = "workflow" THEN returned ELSE <<out>>
            /\ iterations' = 0
            /\ observation' = None
            /\ UNCHANGED <<stage, agent_inputs>>
    /\ raised' = raised

\* one executor iteration in which the backend gives a final answer
AgentFinish(answer) ==
    /\ fpc = "agent"
    /\ iterations < MaxIterations
    /\ StageReturns(answer)
    /\ tool_request' = None
    /\ UNCHANGED <<toolVars, histVars, extVars, tools, variant, date, extra_context, capped, stage_errors,
                   sms_calls, sms_response, printed>>

\* one executor iteration in which the backend names a tool of tools (here
\* any but dino_temp_safety_check) and the tool returns: its result becomes
\* the observation
AgentActTool(name) ==
    /\ fpc = "agent"
    /\ iterations < MaxIterations
    /\ name \in ToolNames(tools)
    /\ name # "dino_temp_safety_check"
    /\ iterations' = iterations + 1
    /\ tool_request' = name
    /\ observation' = "tool result"
    /\ UNCHANGED <<toolVars, histVars, extVars, tools, fpc, variant, date, extra_context, stage, agent_inputs, outputs,
                   capped, stage_errors, sms_calls, sms_response, printed, returned, raised>>

\* one executor iteration in which the backend names a tool that is not in
\* tools: the executor observes "... is not a valid tool" and goes on
AgentActInvalidTool(name) ==
    /\ fpc = "agent"
    /\ iterations < MaxIterations
    /\ name \notin ToolNames(tools)
    /\ iterations' = iterations + 1
    /\ tool_request' = name
    /\ observation' = "is not a valid tool"
    /\ UNCHANGED <<toolVars, histVars, extVars, tools, fpc, variant, date, extra_context, stage, agent_inputs, outputs,
                   capped, stage_errors, sms_calls, sms_response, printed, returned, raised>>

\* one executor iteration in which the backend names dino_temp_safety_check
\* with the input inp: the tool's verdict becomes the observation; when the
\* tool raises, nothing in the tool (no handle_tool_error) or in the executor
\* catches it and the exception leaves invoke
AgentActDinoTool(inp) ==
    /\ fpc = "agent"
    /\ iterations < MaxIterations
    /\ "dino_temp_safety_check" \in ToolNames(tools)
    /\ tool_request' = "dino_temp_safety_check"
    /\ LET r == DinoOutcome(inp)
       IN IF r.raised = None
          THEN /\ iterations' = iterations + 1
               /\ observation' = r.result
               /\ UNCHANGED <<fpc, stage, agent_inputs, outputs, stage_errors, returned, raised>>
          ELSE /\ stage_errors' = stage_errors \cup {stage}
               /\ StageRaises(r.raised)
    /\ UNCHANGED <<toolVars, histVars, extVars, tools, variant, date, extra_context, capped,
                   sms_calls, sms_response, printed>>

\* one executor iteration in which the backend names a tool of tools and the
\* tool raises (the store or the weather service fails): as above, the
\* exception leaves invoke
AgentActToolRaises(name) ==
    /\ fpc = "agent"
    /\ iterations < MaxIterations
    /\ name \in ToolNames(tools)
    /\ tool_request' = name
    /\ stage_errors' = stage_errors \cup {stage}
    /\ StageRaises("ToolError")
    /\ UNCHANGED <<toolVars, histVars, extVars, tools, variant, date, extra_context, capped,
                   sms_calls, sms_response, printed>>

\* one executor iteration that raises before any tool is named: the backend
\* call fails or its text is not parseable (handle_parsing_errors is not set)
AgentRaises(exc) ==
    /\ fpc = "agent"
    /\ iterations < MaxIterations
    /\ stage_errors' = stage_errors \cup {stage}
    /\ tool_request' = None
    /\ StageRaises(exc)
    /\ UNCHANGED <<toolVars, histVars, extVars, tools, variant, date, extra_context, capped, sms_calls,
                   sms_response, printed>>

\* the executor's loop ends at the cap: with early_stopping_method "force"
\* it returns the stopped response as the output, it does not raise
AgentStopped ==
    /\ fpc = "agent"
    /\ iterations = MaxIterations
    /\ capped' = capped \cup {stage}
    /\ StageReturns(StoppedResponse)
    /\ tool_request' = None
    /\ UNCHANGED <<toolVars, histVars, extVars, tools, variant, date, extra_context, stage_errors, sms_calls,
                   sms_response, printed>>

\* line 80: aws_send_sms(phonenumber, email) returns publish's response
SendSms(resp) ==
    /\ fpc = "sms"
    /\ sms_calls' = Append(sms_calls, [phone_number |-> PhoneNumber, message |-> outputs[5]])
    /\ sms_response' = <<resp>>
    /\ fpc' = "log"
    /\ UNCHANGED <<toolVars, histVars, extVars, tools, tool_request, variant, date, extra_context, stage, iterations, observation, agent_inputs,
                   outputs, capped, stage_errors, printed, returned, raised>>

\* line 80: publish raises (botocore ClientError), the workflow does not catch it
SendSmsRaises ==
    /\ fpc = "sms"
    /\ sms_calls' = Append(sms_calls, [phone_number |-> PhoneNumber, message |-> outputs[5]])
    /\ fpc' = "failed"
    /\ raised' = "ClientError"
    /\ UNCHANGED <<toolVars, histVars, extVars, tools, tool_request, variant, date, extra_context, stage, iterations, observation, agent_inputs,
                   outputs, capped, stage_errors, sms_response, printed, returned>>

\* lines 82-87
LogAndReturn ==
    /\ fpc = "log"
    /\ printed' = Append(printed, IF LogsSuccess(sms_response[1])
                                  THEN "Message sent successfully!"
                                  ELSE "Failed to send message.")
    /\ fpc' = AfterLog(sms_response[1])
    /\ returned' = IF fpc' = "done" THEN <<WorkflowReturn(outputs[5], sms_response[1])>>
                   ELSE returned
    /\ UNCHANGED <<toolVars, histVars, extVars, tools, tool_request, variant, date, extra_context, stage, iterations, observation, agent_inputs,
                   outputs, capped, stage_errors, sms_calls, sms_response, raised>>

Exceptions == {"APIError", "OutputParserException"}

FlowInit ==
    /\ fpc = "start"
    /\ variant \in {"workflow", "tool"}
    /\ date \in Dates
    /\ extra_context \in IF variant = "workflow" THEN {None, CustomExtraContext} ELSE {None}
    /\ stage = 0
    /\ iterations = 0
    /\ observation = None
    /\ agent_inputs = <<>>
    /\ outputs = <<>>
    /\ capped = {}
    /\ stage_errors = {}
    /\ tools = <<>>
    /\ tool_request = None
    /\ sms_calls = <<>>
    /\ sms_response = <<>>
    /\ printed = <<>>
    /\ returned = <<>>
    /\ raised = None

FlowIdle ==
    /\ fpc = "off"
    /\ variant = "workflow"
    /\ date = <<>>
    /\ extra_context = None
    /\ stage = 0
    /\ iterations = 0
    /\ observation = None
    /\ agent_inputs = <<>>
    /\ outputs = <<>>
    /\ capped = {}
    /\ stage_errors = {}
    /\ tools = <<>>
    /\ tool_request = None
    /\ sms_calls = <<>>
    /\ sms_response = <<>>
    /\ printed = <<>>
    /\ returned = <<>>
    /\ raised = None

FlowNext ==
    \/ StartWorkflow
    \/ \E a \in Answers : AgentFinish(a)
    \/ \E n \in RequestedNames : AgentActTool(n)
    \/ \E n \in RequestedNames : AgentActInvalidTool(n)
    \/ \E i \in DinoRequests : AgentActDinoTool(i)
    \/ \E n \in RequestedNames : AgentActToolRaises(n)
    \/ \E e \in Exceptions : AgentRaises(e)
    \/ AgentStopped
    \/ \E r \in SmsResponses : SendSms(r)
    \/ SendSmsRaises
    \/ LogAndReturn

\* ---------------------------------------------------------------- dynamo_db

TableNames == {"dino_info", "dino_test"}

\* line 84: the table query_dynamodb_dino_tbl_by_date reads
QueryTableName == "dino_info"

\* the path streamlit_chatbot.py gives (line 110) and the path of line 142
GivenCsvPath == "../csv_data/dino_records.csv"
HardCodedCsvPath == "../../csv_data/dino_records.csv"
CsvPaths == {GivenCsvPath, HardCodedCsvPath}

DinoDates == {"3/19/2024", "3/20/2024"}

\* the rows a CSV file may hold: two of the same key, two of the same date
CsvRows ==
    { [Date |-> "3/19/2024", DinoID_Transported |-> "D1", City |-> "Austin"],
      [Date |-> "3/19/2024", DinoID_Transported |-> "D1", City |-> "Boston"],
      [Date |-> "3/19/2024", DinoID_Transported |-> "D2", City |-> "Austin"] }

RowSeqs(n) == UNION {[1..k -> CsvRows] : k \in 0..n}

\* what may be at a path: no file, or a file of at most MaxRows rows
CsvFiles == {<<>>} \cup {<<rs>> : rs \in RowSeqs(MaxRows)}

\* lines 123-126: the key of an item
Key(row) == <<row.Date, row.DinoID_Transported>>

\* A plausible slip: a store that keeps every item it is given.
PutItemKeepsBoth(tbl, row) == tbl \cup {row}

\* table.put_item(Item=row): the item replaces the one of its key, if any
PutItem(tbl, row) == {r \in tbl : Key(r) # Key(row)} \cup {row}

\* lines 69-71: every row of the reader is put, in the file's order
RECURSIVE BulkLoad(_, _)
BulkLoad(tbl, rows) ==
    IF rows = <<>> THEN tbl ELSE BulkLoad(PutItem(tbl, Head(rows)), Tail(rows))

\* lines 88-98: the items of the partition key date
Query(tbl, d) == {r \in tbl : r.Date = d}

\* what describe_table may answer for name: the description, not found, or
\* another error of the service (a ClientError) or of the connection (not one)
DescribeOutcomes(name) ==
    (IF name \in table_exists THEN {"ok"} ELSE {"ResourceNotFoundException"})
    \cup {"AccessDeniedException", "EndpointConnectionError"}

\* A plausible slip: every error of the store taken as "no such table".
CheckTableExistsSwallows(outcome) ==
    IF outcome = "ok" THEN [result |-> <<TRUE>>, raised |-> None]
    ELSE [result |-> <<FALSE>>, raised |-> None]

\* check_table_exists, from what describe_table answered (lines 18-27)
CheckTableExists(outcome) ==
    IF outcome = "ok" THEN [result |-> <<TRUE>>, raised |-> None]
    ELSE IF outcome = "ResourceNotFoundException" THEN [result |-> <<FALSE>>, raised |-> None]
    ELSE [result |-> <<>>, raised |-> outcome]

NoArgs == [table_name |-> None, csv_file_path |-> None, date |-> None]

\* a call of check_table_exists(name) to which describe_table answers outcome
CallCheckTableExists(name, outcome) ==
    /\ dop # "off"
    /\ outcome \in DescribeOutcomes(name)
    /\ dop' = "check_table_exists"
    /\ dargs' = [NoArgs EXCEPT !.table_name = name]
    /\ reported' = outcome
    /\ dresult' = CheckTableExists(outcome).result
    /\ draised' = CheckTableExists(outcome).raised
    /\ table_created' = <<>>
    /\ table_written' = <<>>
    /\ path_read' = <<>>
    /\ UNCHANGED <<toolVars, histVars, flowVars, initVars, nestVars, chatVars, table_exists, items, csv_files>>

\* a call of read_csv_and_upload_to_dynamodb(name, path): open raises when no
\* file is there; the first put_item raises when the table is not there
CallReadCsvAndUpload(name, path) ==
    /\ dop # "off"
    /\ dop' = "read_csv_and_upload_to_dynamodb"
    /\ dargs' = [NoArgs EXCEPT !.table_name = name, !.csv_file_path = path]
    /\ reported' = None
    /\ dresult' = <<>>
    /\ table_created' = <<>>
    /\ path_read' = <<path>>
    /\ IF csv_files[path] = <<>>
       THEN /\ draised' = "FileNotFoundError"
            /\ table_written' = <<>>
            /\ items' = items
       ELSE IF name \notin table_exists /\ csv_files[path][1] # <<>>
       THEN /\ draised' = "ResourceNotFoundException"
            /\ table_written' = <<name>>
            /\ items' = items
       ELSE /\ draised' = None
            /\ table_written' = <<name>>
            /\ items' = [items EXCEPT ![name] = BulkLoad(@, csv_files[path][1])]
    /\ UNCHANGED <<toolVars, histVars, flowVars, initVars, nestVars, chatVars, table_exists, csv_files>>

\* a call of create_dino_dynamo_table(name, path): create_table raises when
\* the table is there; line 142 then sets the path the bulk load is given
CallCreateDinoDynamoTable(name, path) ==
    /\ dop # "off"
    /\ dop' = "create_dino_dynamo_table"
    /\ dargs' = [NoArgs EXCEPT !.table_name = name, !.csv_file_path = path]
    /\ reported' = None
    /\ dresult' = <<>>
    /\ table_created' = <<name>>
    /\ IF name \in table_exists
       THEN /\ draised' = "ResourceInUseException"
            /\ table_written' = <<>>
            /\ path_read' = <<>>
            /\ UNCHANGED <<table_exists, items>>
       ELSE /\ table_exists' = table_exists \cup {name}
            /\ path_read' = <<HardCodedCsvPath>>
            /\ IF csv_files[HardCodedCsvPath] = <<>>
               THEN /\ draised' = "FileNotFoundError"
                    /\ table_written' = <<>>
                    /\ items' = [items EXCEPT ![name] = {}]
               ELSE /\ draised' = None
                    /\ table_written' = <<name>>
                    /\ items' = [items EXCEPT ![name] = BulkLoad({}, csv_files[HardCodedCsvPath][1])]
    /\ UNCHANGED <<toolVars, histVars, flowVars, initVars, nestVars, chatVars, csv_files>>

\* a call of query_dynamodb_dino_tbl_by_date(d)
CallQuery(d) ==
    /\ dop # "off"
    /\ dop' = "query_dynamodb_dino_tbl_by_date"
    /\ dargs' = [NoArgs EXCEPT !.date = d]
    /\ reported' = None
    /\ IF QueryTableName \in table_exists
       THEN /\ dresult' = <<Query(items[QueryTableName], d)>>
            /\ draised' = None
       ELSE /\ dresult' = <<>>
            /\ draised' = "ResourceNotFoundException"
    /\ table_created' = <<>>
    /\ table_written' = <<>>
    /\ path_read' = <<>>
    /\ UNCHANGED <<toolVars, histVars, flowVars, initVars, nestVars, chatVars, table_exists, items, csv_files>>

\* an empty store, any files at the two paths, no call made yet
DynInit ==
    /\ table_exists = {}
    /\ items = [t \in TableNames |-> {}]
    /\ csv_files \in [CsvPaths -> CsvFiles]
    /\ dop = None
    /\ dargs = NoArgs
    /\ reported = None
    /\ dresult = <<>>
    /\ draised = None
    /\ table_created = <<>>
    /\ table_written = <<>>
    /\ path_read = <<>>

DynIdle ==
    /\ table_exists = {}
    /\ items = <<>>
    /\ csv_files = <<>>
    /\ dop = "off"
    /\ dargs = <<>>
    /\ reported = None
    /\ dresult = <<>>
    /\ draised = None
    /\ table_created = <<>>
    /\ table_written = <<>>
    /\ path_read = <<>>

DynNext ==
    \/ \E n \in TableNames, o \in {"ok", "ResourceNotFoundException", "AccessDeniedException",
                                  "EndpointConnectionError"} : CallCheckTableExists(n, o)
    \/ \E n \in TableNames, p \in CsvPaths : CallReadCsvAndUpload(n, p)
    \/ \E n \in TableNames, p \in CsvPaths : CallCreateDinoDynamoTable(n, p)
    \/ \E d \in DinoDates : CallQuery(d)

\* ------------------------------------------------ initialize_data_sources

\* the sessions of the Streamlit application; each runs main, and with it
\* initialize_data_sources, on every interaction
Sessions == {1, 2}

\* streamlit_chatbot.py lines 108-111: the arguments main gives
MainDynamoArgs == [table_name |-> "dino_info", csv_file_path |-> GivenCsvPath]

\* A plausible slip: the vector store built on every run.
BuildsVectorStoreAlways(path_exists) == TRUE

\* line 62: the vector store is built when nothing is at its path
BuildsVectorStore(path_exists) == ~path_exists

AtRest(s) == ipc[s] \in {"idle", "done", "failed"}

\* what a run can change: the vector store and the tables
DataSources == [chroma |-> chroma_exists, built |-> builds, tables |-> table_exists, items |-> items]

\* a session enters initialize_data_sources; sequentially, only while no
\* other session is inside it
BeginInit(s) ==
    /\ mode # "off"
    /\ AtRest(s)
    /\ mode = "sequential" => \A o \in Sessions : AtRest(o)
    /\ runs < MaxRuns
    /\ runs' = runs + 1
    /\ ipc' = [ipc EXCEPT ![s] = "chroma_check"]
    /\ ierror' = [ierror EXCEPT ![s] = None]
    /\ checked' = [checked EXCEPT ![s] = <<>>]
    /\ snap' = [snap EXCEPT ![s] =
                  IF chroma_exists /\ MainDynamoArgs.table_name \in table_exists
                  THEN <<DataSources>> ELSE <<>>]
    /\ UNCHANGED <<toolVars, histVars, flowVars, dynVars, nestVars, chatVars, mode, chroma_exists,
                   builds, deletes, creates, create_attempts, loads>>

\* line 62: os.path.exists(db_path)
ChromaCheck(s) ==
    /\ ipc[s] = "chroma_check"
    /\ ipc' = [ipc EXCEPT ![s] = IF BuildsVectorStore(chroma_exists) THEN "chroma_new"
                                 ELSE "table_check"]
    /\ UNCHANGED <<toolVars, histVars, flowVars, dynVars, nestVars, chatVars, mode, runs, ierror, checked,
                   snap, chroma_exists, builds, deletes, creates, create_attempts, loads>>

\* create_brand_new_chroma_db, lines 73-75: what is at the path is removed
ChromaRemove(s) ==
    /\ ipc[s] = "chroma_new"
    /\ ipc' = [ipc EXCEPT ![s] = "chroma_build"]
    /\ chroma_exists' = FALSE
    /\ deletes' = IF chroma_exists THEN deletes + 1 ELSE deletes
    /\ UNCHANGED <<toolVars, histVars, flowVars, dynVars, nestVars, chatVars, mode, runs, ierror, checked,
                   snap, builds, creates, create_attempts, loads>>

\* lines 78-79: the store is built and persisted, or the embedding fails
ChromaBuild(s, ok) ==
    /\ ipc[s] = "chroma_build"
    /\ IF ok
       THEN /\ chroma_exists' = TRUE
            /\ builds' = builds + 1
            /\ ipc' = [ipc EXCEPT ![s] = "table_check"]
            /\ ierror' = ierror
       ELSE /\ ipc' = [ipc EXCEPT ![s] = "failed"]
            /\ ierror' = [ierror EXCEPT ![s] = "EmbeddingError"]
            /\ UNCHANGED <<chroma_exists, builds>>
    /\ UNCHANGED <<toolVars, histVars, flowVars, dynVars, nestVars, chatVars, mode, runs, checked, snap,
                   deletes, creates, create_attempts, loads>>

\* line 68: check_table_exists(dynamodb_args['table_name'])
TableCheck(s, outcome) ==
    /\ ipc[s] = "table_check"
    /\ outcome \in DescribeOutcomes(MainDynamoArgs.table_name)
    /\ LET r == CheckTableExists(outcome)
       IN /\ checked' = [checked EXCEPT ![s] = r.result]
          /\ ierror' = [ierror EXCEPT ![s] = r.raised]
          /\ ipc' = [ipc EXCEPT ![s] = IF r.raised # None THEN "failed"
                                       ELSE IF r.result = <<TRUE>> THEN "done"
                                       ELSE "create_table"]
    /\ UNCHANGED <<toolVars, histVars, flowVars, dynVars, nestVars, chatVars, mode, runs, snap,
                   chroma_exists, builds, deletes, creates, create_attempts, loads>>

\* create_dino_dynamo_table, line 139: create_table raises when the table is
\* there, else the table is there once wait_until_exists returns
CreateTable(s) ==
    /\ ipc[s] = "create_table"
    /\ create_attempts' = create_attempts + 1
    /\ IF MainDynamoArgs.table_name \in table_exists
       THEN /\ ipc' = [ipc EXCEPT ![s] = "failed"]
            /\ ierror' = [ierror EXCEPT ![s] = "ResourceInUseException"]
            /\ UNCHANGED <<table_exists, items, creates>>
       ELSE /\ table_exists' = table_exists \cup {MainDynamoArgs.table_name}
            /\ items' = [items EXCEPT ![MainDynamoArgs.table_name] = {}]
            /\ creates' = creates + 1
            /\ ipc' = [ipc EXCEPT ![s] = "load"]
            /\ ierror' = ierror
    /\ UNCHANGED <<toolVars, histVars, flowVars, csv_files, callVars, nestVars, chatVars, mode, runs,
                   checked, snap, chroma_exists, builds, deletes, loads>>

\* lines 142-143: the bulk load from the path of line 142
LoadCsv(s) ==
    /\ ipc[s] = "load"
    /\ IF csv_files[HardCodedCsvPath] = <<>>
       THEN /\ ipc' = [ipc EXCEPT ![s] = "failed"]
            /\ ierror' = [ierror EXCEPT ![s] = "FileNotFoundError"]
            /\ UNCHANGED <<items, loads>>
       ELSE /\ items' = [items EXCEPT ![MainDynamoArgs.table_name] =
                           BulkLoad(@, csv_files[HardCodedCsvPath][1])]
            /\ loads' = loads + 1
            /\ ipc' = [ipc EXCEPT ![s] = "done"]
            /\ ierror' = ierror
    /\ UNCHANGED <<toolVars, histVars, flowVars, table_exists, csv_files, callVars, nestVars, chatVars,
                   mode, runs, checked, snap, chroma_exists, builds, deletes, creates,
                   create_attempts>>

\* no session has run yet; the vector store and the table may be there from
\* an earlier start of the application
InitSessions(m, tables) ==
    /\ mode = m
    /\ ipc = [s \in Sessions |-> "idle"]
    /\ ierror = [s \in Sessions |-> None]
    /\ checked = [s \in Sessions |-> <<>>]
    /\ snap = [s \in Sessions |-> <<>>]
    /\ runs = 0
    /\ chroma_exists \in BOOLEAN
    /\ builds = 0
    /\ deletes = 0
    /\ creates = 0
    /\ create_attempts = 0
    /\ loads = 0
    /\ table_exists \in tables
    /\ items = [t \in TableNames |-> {}]
    /\ csv_files \in [CsvPaths -> CsvFiles]
    /\ dop = "off"
    /\ dargs = NoArgs
    /\ reported = None
    /\ dresult = <<>>
    /\ draised = None
    /\ table_created = <<>>
    /\ table_written = <<>>
    /\ path_read = <<>>

InitIdle ==
    /\ mode = "off"
    /\ ipc = <<>>
    /\ ierror = <<>>
    /\ checked = <<>>
    /\ snap = <<>>
    /\ runs = 0
    /\ chroma_exists = FALSE
    /\ builds = 0
    /\ deletes = 0
    /\ creates = 0
    /\ create_attempts = 0
    /\ loads = 0

InitNext ==
    \/ \E s \in Sessions : BeginInit(s)
    \/ \E s \in Sessions : ChromaCheck(s)
    \/ \E s \in Sessions : ChromaRemove(s)
    \/ \E s \in Sessions, ok \in BOOLEAN : ChromaBuild(s, ok)
    \/ \E s \in Sessions, o \in {"ok", "ResourceNotFoundException", "AccessDeniedException",
                                "EndpointConnectionError"} : TableCheck(s, o)
    \/ \E s \in Sessions : CreateTable(s)
    \/ \E s \in Sessions : LoadCsv(s)

\* ------------------------------------------- workflows within workflows

\* a workflow run starts: its stage-1 dispatch loop begins
NewFrame == [stage |-> 1, iterations |-> 0]

Top == frames[Len(frames)]

SetTop(f) == [frames EXCEPT ![Len(frames)] = f]

\* the pipeline run starts (dino_safety_flow_part4.py, or the tool named by
\* the chat agent)
NestStart ==
    /\ npc = "start"
    /\ npc' = "run"
    /\ frames' = <<NewFrame>>
    /\ UNCHANGED <<toolVars, histVars, flowVars, dynVars, initVars, chatVars>>

\* one iteration of the innermost loop names a tool other than the workflow
\* tool: the tool returns to the loop
NestActTool ==
    /\ npc = "run"
    /\ Top.iterations < MaxIterations
    /\ frames' = SetTop([Top EXCEPT !.iterations = @ + 1])
    /\ UNCHANGED <<toolVars, histVars, flowVars, dynVars, initVars, chatVars, npc>>

\* one iteration of the innermost loop names
\* dino_temp_safety_check_workflow_tool: the tool builds an executor over
\* get_all_tools and starts its own stage 1 inside the iteration
NestActWorkflowTool ==
    /\ npc = "run"
    /\ Top.iterations < MaxIterations
    /\ "dino_temp_safety_check_workflow_tool" \in ToolNames(GetAllTools)
    /\ Len(frames) < MaxDepth
    /\ frames' = Append(SetTop([Top EXCEPT !.iterations = @ + 1]), NewFrame)
    /\ UNCHANGED <<toolVars, histVars, flowVars, dynVars, initVars, chatVars, npc>>

\* the innermost loop ends, with a final answer or at its cap: the next
\* stage's loop begins, or after stage 5 the workflow returns, to the
\* iteration that invoked it or to the caller of the run
NestLoopEnds ==
    /\ npc = "run"
    /\ IF Top.stage < 5
       THEN /\ frames' = SetTop([stage |-> Top.stage + 1, iterations |-> 0])
            /\ npc' = npc
       ELSE /\ frames' = SubSeq(frames, 1, Len(frames) - 1)
            /\ npc' = IF Len(frames) = 1 THEN "done" ELSE "run"
    /\ UNCHANGED <<toolVars, histVars, flowVars, dynVars, initVars, chatVars>>

NestInit ==
    /\ npc = "start"
    /\ frames = <<>>

NestIdle ==
    /\ npc = "off"
    /\ frames = <<>>

NestNext ==
    \/ NestStart
    \/ NestActTool
    \/ NestActWorkflowTool
    \/ NestLoopEnds

\* ---------------------------------------------------- the chat form's submit

\* what the user may have typed when the form is submitted
UserInputs == {""} \cup UserMessages

\* what the model call may do: return a response, or raise
ModelOutcomes == [response : {<<b>> : b \in BotResponses}, raised : {None}]
                 \cup {[response |-> <<>>, raised |-> "APIError"]}

\* A plausible slip: the test of line 164 left out.
CallsModelAlways(user_input) == TRUE

\* line 164: if user_input
CallsModel(user_input) == user_input # ""

\* add_to_history(u, b) on the history h (None: no such key yet)
HistoryAfterAdd(h, u, b) ==
    KeepLastThree(Append(IF h = None THEN <<>> ELSE h, <<u, b>>))

\* lines 163-189: the form is submitted with user_input in the box; out is
\* what the model call does when it is made.  An empty input writes the
\* notice; a call that raises leaves main at lines 170-182; a call that
\* returns is followed by add_to_history(user_input, response)
Submit(user_input, out) ==
    /\ rag_application # "off"
    /\ Len(submitted) < MaxSubmits
    /\ IF ~CallsModel(user_input)
       THEN \* the model is not called: out is not used, one value of it is enough
            /\ out.raised = "APIError"
            /\ submitted' = Append(submitted, [user_input |-> user_input, called |-> FALSE,
                                               response |-> <<>>, raised |-> None])
            /\ notice' = "Please enter a question or statement to interact with the AI."
            /\ UNCHANGED <<message_history, added>>
       ELSE /\ submitted' = Append(submitted, [user_input |-> user_input, called |-> TRUE,
                                               response |-> out.response, raised |-> out.raised])
            /\ notice' = None
            /\ IF out.raised # None
               THEN UNCHANGED <<message_history, added>>
               ELSE /\ message_history' = HistoryAfterAdd(message_history, user_input,
                                                          out.response[1])
                    /\ added' = Append(added, <<user_input, out.response[1]>>)
    /\ UNCHANGED <<toolVars, flowVars, dynVars, initVars, nestVars, rag_application>>

\* a new session of the application, with or without the agent (cfg.rag)
ChatInit ==
    /\ rag_application \in {"true", "false"}
    /\ submitted = <<>>
    /\ notice = None

ChatIdle ==
    /\ rag_application = "off"
    /\ submitted = <<>>
    /\ notice = None

ChatNext ==
    \E u \in UserInputs, out \in ModelOutcomes : Submit(u, out)

\* ------------------------------------------------------------ specifications

\* the parts a specification leaves alone are held at their idle values
ExtIdle == DynIdle /\ InitIdle /\ NestIdle /\ ChatIdle


InitTools == ToolsInit /\ HistInit /\ FlowIdle /\ ExtIdle
SpecTools == InitTools /\ [][ToolsNext]_vars

InitHistory == ToolsIdle /\ HistInit /\ FlowIdle /\ ExtIdle
SpecHistory == InitHistory /\ [][HistNext]_vars

InitFlow == ToolsIdle /\ HistInit /\ FlowInit /\ ExtIdle
SpecFlow == InitFlow /\ [][FlowNext]_vars

InitDynamo == ToolsIdle /\ HistInit /\ FlowIdle /\ DynInit /\ InitIdle /\ NestIdle /\ ChatIdle
SpecDynamo == InitDynamo /\ [][DynNext]_vars

\* the sessions run initialize_data_sources one after the other
InitInitSeq ==
    /\ ToolsIdle /\ HistInit /\ FlowIdle /\ NestIdle /\ ChatIdle
    /\ InitSessions("sequential", {{}, {MainDynamoArgs.table_name}})
SpecInitSeq == InitInitSeq /\ [][InitNext]_vars

\* the sessions run it at the same time, the table not being there yet
InitInitConc ==
    /\ ToolsIdle /\ HistInit /\ FlowIdle /\ NestIdle /\ ChatIdle
    /\ InitSessions("concurrent", {{}})
SpecInitConc == InitInitConc /\ [][InitNext]_vars

InitNest == ToolsIdle /\ HistInit /\ FlowIdle /\ DynIdle /\ InitIdle /\ NestInit /\ ChatIdle
SpecNest == InitNest /\ [][NestNext]_vars

InitChat == ToolsIdle /\ HistInit /\ FlowIdle /\ DynIdle /\ InitIdle /\ NestIdle /\ ChatInit
SpecChat == InitChat /\ [][ChatNext]_vars

\* ==================================================================== claims

NumEq(a, b) == ~NumLess(a, b) /\ ~NumLess(b, a)
NumLeq(a, b) == ~NumLess(b, a)

\* C1: for every input "current,low,high" whose three fields parse to numbers
\* with low <= high, dino_temp_safety_check returns the safe verdict iff
\* low <= current <= high (both ends inclusive), the too-cold verdict iff
\* current < low and the too-hot verdict iff current > high.
C1_VerdictMatchesRange ==
    (tpc = "done" /\ tool = "dino" /\ Len(parsed) = 3
        /\ NumLeq(parsed[2], parsed[3]))
    => LET cur == parsed[1]
           low == parsed[2]
           high == parsed[3]
       IN /\ traised = None
          /\ (tresult = Safe) <=> (NumLeq(low, cur) /\ NumLeq(cur, high))
          /\ (tresult = TooCold) <=> NumLess(cur, low)
          /\ (tresult = TooHot) <=> NumLess(high, cur)

\* a current reading that equals the upper end of a proper range
C1_Witness ==
    /\ tpc = "done" /\ tool = "dino" /\ Len(parsed) = 3
    /\ NumLess(parsed[2], parsed[3])
    /\ NumEq(parsed[1], parsed[3])
    /\ tresult = Safe

\* The characters of s that are digits, '-' or '.', in their order.
NumericChars == {"0", "1", "2", "3", "4", "5", "6", "7", "8", "9", "-", "."}
Kept(s) == SelectSeq(s, LAMBDA c : c \in NumericChars)

CountIn(r, S) == Cardinality({i \in DOMAIN r : r[i] \in S})

\* r writes a number: one or more digits, at most one point, at most one
\* minus sign and that one in front.
WritesNumber(r) ==
    /\ CountIn(r, Digits) >= 1
    /\ CountIn(r, {"."}) <= 1
    /\ \A i \in DOMAIN r : r[i] = "-" => i = 1

RECURSIVE PlaceValue(_)
PlaceValue(d) ==
    IF d = <<>> THEN 0
    ELSE DigitVal(d[Len(d)]) + 10 * PlaceValue(SubSeq(d, 1, Len(d) - 1))

\* the number r writes: its digits by place value, the point shifting them
\* by the number of digits after it, negated under a minus sign
NumberWritten(r) ==
    LET mant == PlaceValue(SelectSeq(r, LAMBDA c : c \in Digits))
        after == {i \in DOMAIN r : \E j \in DOMAIN r : j < i /\ r[j] = "."}
    IN [num |-> IF r[1] = "-" THEN 0 - mant ELSE mant,
        scale |-> Cardinality({i \in after : r[i] \in Digits})]

\* the temperature fields the invoked tool parses
TempFields == IF tool = "celsius" THEN <<tinput>> ELSE fields

\* C2: every temperature field of dino_temp_safety_check and of
\* celsius_to_fahrenheit_conversion is parsed after removing all characters
\* other than digits, '-' and '.': a parse error is raised iff some field's
\* remainder does not write a number, and every parsed value is the number
\* its field's remainder writes.
C2_StripThenParse ==
    (tpc = "done" /\ traised # "ValueError: unpack")
    => /\ (traised = "ValueError: float")
            <=> (\E i \in DOMAIN TempFields : ~WritesNumber(Kept(TempFields[i])))
       /\ (traised = None)
            <=> (\A i \in DOMAIN TempFields : WritesNumber(Kept(TempFields[i])))
       /\ \A i \in DOMAIN parsed :
             /\ WritesNumber(Kept(TempFields[i]))
             /\ parsed[i].scale = NumberWritten(Kept(TempFields[i])).scale
             /\ parsed[i].num = NumberWritten(Kept(TempFields[i])).num
       /\ traised = None => Len(parsed) = Len(TempFields)

\* a negative, fractional, decorated field was parsed to its number
C2_Witness ==
    /\ tpc = "done" /\ traised = None
    /\ \E i \in DOMAIN TempFields :
         /\ Kept(TempFields[i]) # TempFields[i]
         /\ parsed[i].num < 0
         /\ parsed[i].scale > 0

\* C3: after any sequence of add_to_history calls starting with no history,
\* the history holds at most three pairs and is exactly the last min(n, 3)
\* pairs added, in the order added (a full history loses its oldest pair
\* and no other).
C3_LastThreeKept ==
    /\ (message_history = None) <=> (added = <<>>)
    /\ message_history # None =>
         LET n == Len(added)
             k == IF n < 3 THEN n ELSE 3
         IN /\ Len(message_history) <= 3
            /\ message_history = SubSeq(added, n - k + 1, n)

\* two evictions have happened and the history holds three distinct pairs
C3_Witness ==
    /\ Len(added) = 5
    /\ message_history # None
    /\ Len(message_history) = 3
    /\ message_history[1] # message_history[2]
    /\ added[1] # message_history[1]

\* the answers in xs joined by single spaces, as the workflow adds them up
RECURSIVE JoinSpace(_)
JoinSpace(xs) ==
    IF xs = <<>> THEN <<>>
    ELSE IF Len(xs) = 1 THEN xs[1]
    ELSE xs[1] \o <<" ">> \o JoinSpace(Tail(xs))

IsPrefix(p, q) == Len(p) <= Len(q) /\ SubSeq(q, 1, Len(p)) = p

\* The context inside the k-th agent input: what lies between the prompt's
\* fixed opening (none at stage 3) and its fixed closing text, the ". " and
\* the extra context that end every input.
ContextIn(k) ==
    LET inp == agent_inputs[k]
        opening == IF k = 3 THEN 0 ELSE 1
    IN SubSeq(inp, opening + 1, Len(inp) - 3)

\* C4: for every stage k in 2..5 the context in the stage-k agent input is
\* the final answers of stages 1..k-1, each unmodified, all of them, in
\* stage order (the workflow puts one space between two answers); so the
\* context of stage k+1 extends the context of stage k.
C4_ContextIsAllPriorAnswers ==
    \A k \in 2..Len(agent_inputs) :
        /\ ContextIn(k) = JoinSpace(SubSeq(outputs, 1, k - 1))
        /\ k >= 3 => IsPrefix(ContextIn(k - 1), ContextIn(k))

\* stage 5 of the workflow was given four answers that are not all alike
C4_Witness ==
    /\ variant = "workflow"
    /\ Len(agent_inputs) = 5
    /\ outputs[1] # outputs[2]
    /\ outputs[2] # outputs[3]
    /\ outputs[4] = outputs[1]

\* C5: in one run the workflow invokes the agent in the fixed order stage 1
\* to stage 5, exactly five times in a run that returns; stage k+1 starts
\* only after stage k has returned its answer; the notification is sent only
\* after stage 5 has returned; and when a stage's invoke raises, no later
\* stage runs, nothing is sent and nothing is returned.
C5_StagesInOrder ==
    /\ Len(agent_inputs) = stage
    /\ stage <= 5
    /\ \A k \in 1..Len(agent_inputs) :
         agent_inputs[k] = StageInput(k, SubSeq(outputs, 1, k - 1))
    /\ Len(outputs) <= Len(agent_inputs)
    /\ Len(agent_inputs) <= Len(outputs) + 1
    /\ fpc = "done" => Len(agent_inputs) = 5 /\ Len(outputs) = 5
    /\ sms_calls # <<>> => variant = "workflow" /\ Len(outputs) = 5
    /\ \A k \in stage_errors :
         /\ fpc = "failed"
         /\ Len(agent_inputs) = k
         /\ Len(outputs) = k - 1
         /\ sms_calls = <<>>
         /\ returned = <<>>

\* stage 3 of the workflow raised
C5_Witness ==
    /\ variant = "workflow"
    /\ stage_errors = {3}
    /\ fpc = "failed"
    /\ raised = "ToolError"

\* C6: stage 4 (the mitigation query) is run whatever stage 3 answered, safe
\* or not, and its answer always ends the information given to stage 5.
C6_Stage4AlwaysRunsAndIsUsed ==
    /\ Len(outputs) >= 3 =>
         /\ Len(agent_inputs) >= 4
         /\ agent_inputs[4] = StageInput(4, SubSeq(outputs, 1, 3))
    /\ Len(agent_inputs) = 5 =>
         LET ctx == ContextIn(5)
             a == outputs[4]
         IN /\ Len(ctx) > Len(a)
            /\ SubSeq(ctx, Len(ctx) - Len(a), Len(ctx)) = <<" ">> \o a

\* stage 3 answered "safe", stage 4 ran all the same and answered otherwise
C6_Witness ==
    /\ Len(agent_inputs) = 5
    /\ outputs[3] = <<"safe">>
    /\ outputs[4] = <<"not", " ", "safe">>

\* the result carries a message identifier and its status is HTTP 200
Delivered(r) == r.MessageId \notin {None, ""} /\ r.HTTPStatusCode = 200

\* C7: for every delivery result the send returns, the workflow prints
\* "Message sent successfully!" iff the result carries a message identifier
\* and its status is HTTP 200, "Failed to send message." in every other
\* case, and exactly one of the two.
C7_LogMatchesDelivery ==
    /\ fpc \in {"start", "agent", "sms", "log", "failed"} => printed = <<>>
    /\ (fpc = "done" /\ variant = "workflow") =>
         /\ Len(sms_response) = 1
         /\ Len(printed) = 1
         /\ printed[1] \in {"Message sent successfully!", "Failed to send message."}
         /\ (printed[1] = "Message sent successfully!") <=> Delivered(sms_response[1])

\* a result with an identifier and a non-success status was logged as failed
C7_Witness ==
    /\ fpc = "done"
    /\ sms_response # <<>>
    /\ sms_response[1].MessageId = "msg-1"
    /\ sms_response[1].HTTPStatusCode = 500
    /\ printed = <<"Failed to send message.">>

\* C8: in one run the notification send is attempted at most once, and not
\* again after a failed delivery result.
C8_SendAtMostOnce ==
    /\ Len(sms_calls) <= 1
    /\ printed # <<>> => Len(sms_calls) = 1
    /\ variant = "tool" => sms_calls = <<>>

\* a run that ended after a failed delivery made one attempt
C8_Witness ==
    /\ fpc = "done"
    /\ sms_response # <<>>
    /\ ~Delivered(sms_response[1])
    /\ Len(sms_calls) = 1

\* C9: when the send yields a failed result the workflow raises nothing and
\* returns the stage-5 report, the value it also returns after a successful
\* delivery; the message handed to the send is exactly that report.
C9_FailureReportedNotRaised ==
    /\ sms_response # <<>> => raised = None /\ fpc \in {"log", "done"}
    /\ \A i \in DOMAIN sms_calls : sms_calls[i].message = outputs[5]
    /\ (fpc = "done" /\ variant = "workflow") =>
         /\ raised = None
         /\ returned = <<outputs[5]>>
         /\ Len(sms_calls) = 1

\* a run returned its report after a result without a message identifier
C9_Witness ==
    /\ fpc = "done"
    /\ sms_response # <<>>
    /\ sms_response[1].MessageId = None
    /\ returned = <<outputs[5]>>
    /\ outputs[5] \in Answers

\* C10: an executor loop that reaches its iteration cap fails its stage with
\* MaxIterationsExceeded and returns no output, so no output of a capped
\* loop reaches a later stage's context or the report.
C10_CapFailsStage ==
    \A k \in capped :
        /\ fpc = "failed"
        /\ raised = "MaxIterationsExceeded"
        /\ Len(outputs) < k

\* C11: in a dispatch loop a request for an unregistered tool and an exception
\* raised by an invoked tool both become an observation and the loop goes
\* on reasoning: whenever the latest iteration named a tool, the stage is
\* still running and holds an observation.
C11_ToolFailureIsObserved ==
    tool_request # None => (fpc = "agent" /\ observation # None)

C16_CopiesEquivalent ==
    /\ \A k \in DOMAIN agent_inputs :
          /\ variant = "tool" =>
                agent_inputs[k] = WorkflowInput(k, date, outputs, DefaultExtraContext)
          /\ (variant = "workflow" /\ extra_context = DefaultExtraContext) =>
                agent_inputs[k] = ToolInput(k, date, outputs, DefaultExtraContext)
    /\ fpc = "done" => returned = <<outputs[5]>> /\ Len(agent_inputs) = 5
    /\ variant = "tool" => sms_calls = <<>> /\ sms_response = <<>> /\ printed = <<>>
    /\ (variant = "workflow" /\ fpc = "done") =>
          sms_calls = <<[phone_number |-> PhoneNumber, message |-> outputs[5]]>>

\* the tool copy ran its five stages and returned its email
C16_Witness ==
    /\ variant = "tool"
    /\ fpc = "done"
    /\ Len(agent_inputs) = 5
    /\ outputs[3] = <<"not", " ", "safe">>
    /\ returned = <<outputs[5]>>

\* C20: for every input whose three fields parse, dino_temp_safety_check
\* raises nothing and returns one of its three verdicts; when low > high the
\* verdict is never the safe one: it is too cold when current < low and too
\* hot otherwise.
C20_InvertedRangeNeverSafe ==
    (tpc = "done" /\ tool = "dino" /\ Len(parsed) = 3)
    => LET cur == parsed[1]
           low == parsed[2]
           high == parsed[3]
       IN /\ traised = None
          /\ tresult \in {TooCold, TooHot, Safe}
          /\ NumLess(high, low) =>
                /\ tresult # Safe
                /\ NumLess(cur, low) => tresult = TooCold
                /\ ~NumLess(cur, low) => tresult = TooHot

\* an inverted range with the current reading between its two ends
C20_Witness ==
    /\ tpc = "done" /\ tool = "dino" /\ Len(parsed) = 3
    /\ NumLess(parsed[3], parsed[1])
    /\ NumLess(parsed[1], parsed[2])
    /\ tresult = TooCold

\* C13: check_table_exists returns true when the table exists; it returns
\* false and raises nothing when the store reports the table as not found;
\* any other error the store reports is raised to the caller and no boolean
\* is returned.
C13_OnlyNotFoundIsFalse ==
    dop = "check_table_exists" =>
        /\ reported = "ok" <=> dresult = <<TRUE>>
        /\ reported = "ResourceNotFoundException" <=> dresult = <<FALSE>>
        /\ reported \in {"ok", "ResourceNotFoundException"} <=> draised = None
        /\ draised # None => draised = reported /\ dresult = <<>>
        /\ dresult = <<TRUE>> => dargs.table_name \in table_exists
        /\ dresult = <<FALSE>> => dargs.table_name \notin table_exists

\* the store answered a check with an error other than not found
C13_Witness ==
    /\ dop = "check_table_exists"
    /\ reported = "AccessDeniedException"
    /\ draised = "AccessDeniedException"
    /\ dargs.table_name \in table_exists

\* C14: whatever rows were loaded, a table holds at most one item per
\* (Date, DinoID_Transported), and a lookup by date that returns gives
\* exactly the items of the transport table whose Date is the date asked
\* for, none when there is no such item.
C14_OneItemPerKey ==
    /\ \A t \in table_exists : \A r1, r2 \in items[t] : Key(r1) = Key(r2) => r1 = r2
    /\ (dop = "query_dynamodb_dino_tbl_by_date" /\ draised = None) =>
          /\ \A r \in items[QueryTableName] : r \in dresult[1] <=> r.Date = dargs.date
          /\ dresult[1] \subseteq items[QueryTableName]

\* the rows of f name the same key twice
RepeatsKey(f) == \E i, j \in DOMAIN f : i < j /\ Key(f[i]) = Key(f[j]) /\ f[i] # f[j]

\* a lookup found two items in a table loaded from a file that repeats a key
C14_Witness ==
    /\ dop = "query_dynamodb_dino_tbl_by_date"
    /\ draised = None
    /\ Cardinality(dresult[1]) = 2
    /\ \E p \in CsvPaths : csv_files[p] # <<>> /\ RepeatsKey(csv_files[p][1])
                           /\ \E r \in dresult[1] : r.City = "Boston"

\* C15: a call create_dino_dynamo_table(table_name, csv_file_path) that gets
\* to its bulk load reads the file at the csv_file_path it was given and
\* writes the table it created.
C15_LoadsTheGivenFile ==
    (dop = "create_dino_dynamo_table" /\ path_read # <<>>) =>
        /\ path_read = <<dargs.csv_file_path>>
        /\ table_created = <<dargs.table_name>>
        /\ table_written # <<>> => table_written = table_created

\* C17: run one after the other, initialize_data_sources is idempotent.
\* The table is created and loaded at most once and no vector store is ever
\* removed; the store is built only while nothing is at its path and the
\* table is created and loaded only after check_table_exists returned false;
\* a store that is there stays and is not built again; and a run that began
\* with both the store and the table there leaves both as they were.
C17_SequentialRunsIdempotent ==
    /\ [](creates <= 1 /\ loads <= 1 /\ builds <= 1 /\ deletes = 0)
    /\ [](\A s \in Sessions :
            /\ ipc[s] \in {"chroma_new", "chroma_build"} => ~chroma_exists
            /\ ipc[s] \in {"create_table", "load"} => checked[s] = <<FALSE>>
            /\ snap[s] # <<>> => DataSources = snap[s][1])
    /\ [][chroma_exists => (chroma_exists' /\ builds' = builds)]_vars
    /\ [][creates = 1 => table_exists' = table_exists]_vars

\* three runs, the first of which built the store and created and loaded
\* the table, the last of which found both there
C17_Witness ==
    /\ mode = "sequential"
    /\ runs = 3
    /\ builds = 1 /\ creates = 1 /\ loads = 1
    /\ \A s \in Sessions : AtRest(s)
    /\ \E s \in Sessions : ipc[s] = "done" /\ snap[s] # <<>>
                           /\ items[MainDynamoArgs.table_name] # {}

\* C18: the number of dispatch loops and tool invocations one pipeline run
\* triggers is bounded although the loops' tools include
\* dino_temp_safety_check_workflow_tool: the workflow runs started one inside
\* the other, each with a dispatch loop in progress, stay below a bound (here
\* MaxDepth; the statement fails in the same way for every value of it).
C18_NestingBounded ==
    Len(frames) < MaxDepth

\* C19: when sessions run initialize_data_sources at the same time and the
\* table is not there at first, at most one create_table call is made and no
\* session fails because another created the table.
C19_AtMostOneCreateAttempt ==
    /\ create_attempts <= 1
    /\ \A s \in Sessions : ierror[s] # "ResourceInUseException"

\* C21: dino_temp_safety_check requires exactly three comma-separated
\* fields: for every input that holds fewer or more than two commas (so
\* splits into fewer or more than three fields) it raises and returns no
\* verdict.
C21_ThreeFieldsRequired ==
    (tpc = "done" /\ tool = "dino" /\ CountIn(tinput, {","}) # 2)
    => /\ traised # None
       /\ tresult = None
       /\ Len(fields) = CountIn(tinput, {","}) + 1

\* an input of four fields, three of them numbers, as a number written with
\* a thousands comma makes
C21_Witness ==
    /\ tpc = "done" /\ tool = "dino"
    /\ CountIn(tinput, {","}) = 3
    /\ Len(fields) = 4
    /\ Cardinality({i \in DOMAIN fields : PyFloat(ReSub(fields[i])).ok}) = 3
    /\ traised = "ValueError: unpack"

\* the submits whose model call returned
Answered == SelectSeq(submitted, LAMBDA r : r.response # <<>>)

\* C22: in the chat UI a submit with empty input, and a submit whose model
\* call raises, leave the message history as it was; the pairs given to the
\* history are, in order, one per submit whose model call returned, holding
\* that submit's input and its response, and the history is the last three
\* of them.
C22_HistoryOnlyAfterResponse ==
    /\ [](/\ Len(added) = Len(Answered)
          /\ \A i \in DOMAIN added : added[i] = <<Answered[i].user_input, Answered[i].response[1]>>
          /\ \A i \in DOMAIN submitted :
                /\ submitted[i].user_input = "" => ~submitted[i].called
                /\ ~submitted[i].called => submitted[i].response = <<>>
          /\ (message_history = None) <=> (added = <<>>)
          /\ message_history # None =>
                message_history = SubSeq(added, Len(added) - Len(message_history) + 1, Len(added)))
    /\ [][(Len(submitted') > Len(submitted)
            /\ (submitted'[Len(submitted')].user_input = ""
                \/ submitted'[Len(submitted')].raised # None))
          => message_history' = message_history]_vars
    /\ [][(Len(submitted') > Len(submitted) /\ submitted'[Len(submitted')].response # <<>>)
          => /\ Len(added') = Len(added) + 1
             /\ message_history'[Len(message_history')] =
                   <<submitted'[Len(submitted')].user_input,
                     submitted'[Len(submitted')].response[1]>>]_vars

\* an answered submit, then an empty one and one whose model call raised
C22_Witness ==
    /\ Len(submitted) >= 3
    /\ \E i, j, k \in DOMAIN submitted :
          /\ i < j /\ i < k
          /\ submitted[i].response # <<>>
          /\ submitted[j].user_input = ""
          /\ submitted[k].raised = "APIError"
    /\ message_history # None
    /\ Len(message_history) = 1

====
